---------------------------- MODULE Spec2Model ----------------------------
(***************************************************************************)
(* Verification model of python/pyexadis_utils.py (ExaDiS python utilities) *)
(*                                                                         *)
(*   insert_frank_read_src, insert_infinite_line   -> SpecLine, SpecNet    *)
(*   generate_line_config                          -> SpecGen              *)
(*   write_vtk (pbc_wrap branch)                   -> SpecVtk              *)
(*                                                                         *)
(* Arithmetic.  The code works on floating point vectors.  The model is    *)
(* exact on integers:                                                      *)
(*  - cells are orthogonal, side i = 20 * cell.m[i] length units, so that  *)
(*    0.15 * side is the integer 3 * cell.m[i];                            *)
(*  - a direction is an integer vector v with integer norm n, the unit     *)
(*    vector being v / n; inside one insert_infinite_line call positions   *)
(*    are integers in units of 1/n of a length unit (field "scale");       *)
(*  - a norm is represented by its square (len2), the sentinel -1.0 by -1. *)
(***************************************************************************)
EXTENDS Integers, Sequences, FiniteSets, TLC

VARIABLES
    \* caller-owned lists shared by insert_frank_read_src / insert_infinite_line
    nodes, segs,
    \* the running insert_infinite_line call: arguments, locals, position
    arg, loc, pc,
    \* what the last call returned, and the log of finished calls
    ret, calls,
    \* generate_line_config
    gen,
    \* write_vtk, pbc_wrap branch
    vtk

lineVars == <<nodes, segs, arg, loc, pc, ret, calls>>
vars == <<nodes, segs, arg, loc, pc, ret, calls, gen, vtk>>

---------------------------------------------------------------------------
(* Vectors are 3-tuples of integers. *)
Axes == 1..3

VAdd(a, b) == [i \in Axes |-> a[i] + b[i]]

VSub(a, b) == [i \in Axes |-> a[i] - b[i]]

VScale(k, a) == [i \in Axes |-> k * a[i]]

Dot(a, b) == a[1] * b[1] + a[2] * b[2] + a[3] * b[3]

Norm2(a) == Dot(a, a)

Abs(x) == IF x < 0 THEN -x ELSE x

MinOf(S) == CHOOSE x \in S : \A y \in S : x <= y

MaxOf(S) == CHOOSE x \in S : \A y \in S : y <= x

\* np.linalg.norm of an integer vector whose norm is an integer
INorm(a) == CHOOSE r \in 0..Norm2(a) : r * r = Norm2(a)

\* v / np.linalg.norm(v) for the plane normals used here (integer quotient)
Normalize(a) == [i \in Axes |-> a[i] \div INorm(a)]

---------------------------------------------------------------------------
(* pyexadis.Cell: orthogonal cell, side i = 20 * m[i], periodicity flags. *)
Side(cell, i) == 20 * cell.m[i]

\* cell.center() with cell.origin = 0
Center(cell) == [i \in Axes |-> 10 * cell.m[i]]

\* one coordinate of the minimum image: offset from ref wrapped into
\* [-L/2, L/2) on a periodic axis, untouched on a non-periodic one
WrapAxis(d, L, periodic) == IF periodic THEN ((d + L \div 2) % L) - L \div 2 ELSE d

\* cell.closest_image(Rref, R), positions in units of 1/scale
closest_image(cell, scale, Rref, R) ==
    [i \in Axes |-> Rref[i] + WrapAxis(R[i] - Rref[i], scale * Side(cell, i), cell.per[i])]

---------------------------------------------------------------------------
(* insert_infinite_line *)
maxnodes == 1000

UNCONSTRAINED == "UNCONSTRAINED"

PINNED_NODE == "PINNED_NODE"

\* Lmin = min of the row norms of h; seglength = 0.15 * Lmin, clamped by maxseg
Lmin(cell) == MinOf({Side(cell, i) : i \in Axes})

SegLength(cell, maxseg) ==
    LET seglength == (3 * Lmin(cell)) \div 20
    IN  IF maxseg > 0 THEN MinOf({seglength, maxseg}) ELSE seglength

LoopCondOffByOne(l) == l.meet = 0 /\ l.numnodes <= maxnodes

\* the loop condition (~meet) & (numnodes < maxnodes)
LoopCond(l) == l.meet = 0 /\ l.numnodes < maxnodes

\* the closure test (numnodes > 0) & (dist < seglength), on squares
ClosureTest(numnodes, dist2, seglength2) == numnodes > 0 /\ dist2 < seglength2

ClosurePointSwapped(cell, scale, origin, p) == closest_image(cell, scale, origin, p)

\* line 116: the image of origin closest to the current p
ClosurePoint(cell, scale, origin, p) == closest_image(cell, scale, p, origin)

\* lines 85-110: normalise, step length, loop initialisation
LineCall(cell, burg, plane, origin, dir, maxseg, trial) ==
    /\ pc = "idle"
    /\ arg' = [cell |-> cell, burg |-> burg, plane |-> Normalize(plane),
               scale |-> INorm(dir), ldir |-> dir,
               origin |-> VScale(INorm(dir), origin),
               seglength |-> SegLength(cell, maxseg), trial |-> trial]
    /\ loc' = [p |-> VScale(INorm(dir), origin),
               originpbc |-> VScale(INorm(dir), origin),
               meet |-> 0, numnodes |-> 0]
    /\ pc' = "while"
    /\ ret' = [kind |-> "none", val |-> 0, warned |-> FALSE]
    /\ UNCHANGED <<nodes, segs, calls, gen, vtk>>

\* lines 111-118: one iteration of the marching loop
LineStep ==
    /\ pc = "while"
    /\ LoopCond(loc)
    /\ LET p1   == VAdd(loc.p, VScale(arg.seglength, arg.ldir))
           pp   == closest_image(arg.cell, arg.scale, arg.origin, p1)
           d2   == Norm2(VSub(pp, arg.origin))
           hit  == ClosureTest(loc.numnodes, d2, (arg.seglength * arg.scale) * (arg.seglength * arg.scale))
       IN  loc' = [p |-> p1,
                   originpbc |-> IF hit THEN ClosurePoint(arg.cell, arg.scale, arg.origin, p1)
                                 ELSE loc.originpbc,
                   meet |-> IF hit THEN 1 ELSE loc.meet,
                   numnodes |-> loc.numnodes + 1]
    /\ UNCHANGED <<nodes, segs, arg, pc, ret, calls, gen, vtk>>

\* line 120
TooLong(l) == l.numnodes = maxnodes

\* lines 131-134: the nodes of the closed line
LineNodes(a, l) ==
    [i \in 1..l.numnodes |->
        [pos |-> [num |-> VAdd(VScale(l.numnodes, a.origin),
                               VScale(i - 1, VSub(l.originpbc, a.origin))),
                  den |-> a.scale * l.numnodes],
         constraint |-> UNCONSTRAINED]]

LineSegsOpen(a, l, istart) ==
    [i \in 1..l.numnodes |->
        [n1 |-> istart + (i - 1), n2 |-> istart + i, burg |-> a.burg, plane |-> a.plane]]

\* lines 135-136: the segments of the closed line (0-based node indices)
LineSegs(a, l, istart) ==
    [i \in 1..l.numnodes |->
        [n1 |-> istart + (i - 1), n2 |-> istart + (i % l.numnodes),
         burg |-> a.burg, plane |-> a.plane]]

\* lines 127-129: only a non-trial call that found closure appends
InsertsTrialToo(a, l) == ~(l.numnodes = maxnodes)

Inserts(a, l) == ~TooLong(l) /\ ~a.trial

\* lines 120-128, 137: the value returned (val: -1 for -1.0, else the squared
\* norm of originpbc - origin; "lists" stands for the pair (nodes, segs))
LineResult(a, l) ==
    IF TooLong(l)
    THEN IF a.trial THEN [kind |-> "scalar", val |-> -1, warned |-> FALSE]
         ELSE [kind |-> "lists", val |-> 0, warned |-> TRUE]
    ELSE IF a.trial
         THEN [kind |-> "scalar", val |-> Norm2(VSub(l.originpbc, a.origin)), warned |-> FALSE]
         ELSE [kind |-> "lists", val |-> 0, warned |-> FALSE]

\* lines 120-137: what the call returns and what it appends
LineReturn ==
    /\ pc = "while"
    /\ ~LoopCond(loc)
    /\ ret' = LineResult(arg, loc)
    /\ nodes' = IF Inserts(arg, loc) THEN nodes \o LineNodes(arg, loc) ELSE nodes
    /\ segs' = IF Inserts(arg, loc) THEN segs \o LineSegs(arg, loc, Len(nodes)) ELSE segs
    /\ calls' = Append(calls, [op |-> "line", trial |-> arg.trial, ok |-> ~TooLong(loc),
                               istart |-> Len(nodes), sstart |-> Len(segs),
                               k |-> IF Inserts(arg, loc) THEN loc.numnodes ELSE 0,
                               burg |-> arg.burg, plane |-> arg.plane,
                               nodes0 |-> nodes, segs0 |-> segs])
    /\ pc' = "idle"
    /\ UNCHANGED <<arg, loc, gen, vtk>>

---------------------------------------------------------------------------
(* insert_frank_read_src *)

\* lines 61-64: node i (0-based) of the source; its position
\* center - 0.5*length*ldir + i*length/(numnodes-1)*ldir as an exact fraction
\* (den = 0 when numnodes = 1: the code divides by numnodes-1)
FrankReadNodes(center, length, dir, numnodes) ==
    [i \in 1..numnodes |->
        [pos |-> [num |-> VAdd(VScale(2 * INorm(dir) * (numnodes - 1), center),
                               VScale(length * (2 * (i - 1) - (numnodes - 1)), dir)),
                  den |-> 2 * INorm(dir) * (numnodes - 1)],
         constraint |-> IF i - 1 = 0 \/ i - 1 = numnodes - 1
                        THEN PINNED_NODE ELSE UNCONSTRAINED]]

\* lines 66-67: segment i joins istart+i to istart+i+1
FrankReadSegs(burg, plane, istart, numnodes) ==
    [i \in 1..(IF numnodes > 0 THEN numnodes - 1 ELSE 0) |->
        [n1 |-> istart + (i - 1), n2 |-> istart + (i - 1) + 1,
         burg |-> burg, plane |-> plane]]

\* the whole call.  With numnodes = 1 the first position divides by zero:
\* a ZeroDivisionError on python numbers (raised = TRUE, nothing appended),
\* a NaN position on numpy scalars (raised = FALSE).
insert_frank_read_src(burg, plane, length, center, dir, numnodes, raised) ==
    /\ pc = "idle"
    /\ raised => numnodes = 1
    /\ IF raised
       THEN /\ UNCHANGED <<nodes, segs>>
            /\ ret' = [kind |-> "raise", val |-> 0, warned |-> FALSE]
       ELSE /\ nodes' = nodes \o FrankReadNodes(center, length, dir, numnodes)
            /\ segs' = segs \o FrankReadSegs(burg, Normalize(plane), Len(nodes), numnodes)
            /\ ret' = [kind |-> "lists", val |-> 0, warned |-> FALSE]
    /\ calls' = Append(calls, [op |-> "frs", trial |-> FALSE, ok |-> ~raised,
                               istart |-> Len(nodes), sstart |-> Len(segs),
                               k |-> IF raised THEN 0 ELSE numnodes,
                               burg |-> burg, plane |-> Normalize(plane),
                               nodes0 |-> nodes, segs0 |-> segs])
    /\ UNCHANGED <<arg, loc, pc, gen, vtk>>

---------------------------------------------------------------------------
(* Inputs of the line model *)
MaxCalls == 2

MaxFRNodes == 3

AllPeriodic == <<TRUE, TRUE, TRUE>>

Cell(m, per) == [m |-> m, per |-> per]

\* cells of single calls: cubic, orthogonal, large, elongated, one free axis
LineCells ==
    { Cell(<<1, 1, 1>>, AllPeriodic), Cell(<<1, 2, 1>>, AllPeriodic),
      Cell(<<50, 50, 50>>, AllPeriodic), Cell(<<51, 51, 51>>, AllPeriodic),
      Cell(<<1, 1, 151>>, AllPeriodic), Cell(<<1, 1, 1>>, <<TRUE, TRUE, FALSE>>) }

\* cells of call sequences
NetCells == { Cell(<<1, 1, 1>>, AllPeriodic), Cell(<<1, 1, 1>>, <<TRUE, TRUE, FALSE>>) }

\* line directions: lattice rows and one oblique direction of norm 5
Dirs == { <<1, 0, 0>>, <<0, -1, 0>>, <<0, 0, 1>>, <<3, 4, 0>> }

NetDirs == { <<1, 0, 0>>, <<0, 0, 1>>, <<3, 4, 0>> }

MaxSegs == { -1, 1, 7 }

Origins(cell) == { <<0, 0, 0>>, Center(cell) }

\* (Burgers vector, plane normal) pairs
Slips == { <<(<<1, 0, 0>>), (<<0, 0, 1>>)>>, <<(<<0, 1, 0>>), (<<0, 0, 2>>)>> }

NoGen == [pc |-> "off"]

NoVtk == [pc |-> "off"]

\* lists a caller may hand to a single call: empty, or holding a two-node source
PriorLists ==
    { <<(<<>>), (<<>>)>>,
      <<FrankReadNodes(<<10, 10, 10>>, 4, <<1, 0, 0>>, 2),
        FrankReadSegs(<<1, 0, 0>>, <<0, 0, 1>>, 0, 2)>> }

InitCall(prior) ==
    /\ nodes = prior[1]
    /\ segs = prior[2]
    /\ arg = [cell |-> Cell(<<1, 1, 1>>, AllPeriodic), burg |-> <<1, 0, 0>>,
              plane |-> <<0, 0, 1>>, scale |-> 1, ldir |-> <<1, 0, 0>>,
              origin |-> <<0, 0, 0>>, seglength |-> 3, trial |-> FALSE]
    /\ loc = [p |-> <<0, 0, 0>>, originpbc |-> <<0, 0, 0>>, meet |-> 0, numnodes |-> 0]
    /\ pc = "idle"
    /\ ret = [kind |-> "none", val |-> 0, warned |-> FALSE]
    /\ calls = <<>>
    /\ gen = NoGen
    /\ vtk = NoVtk

InitLine == \E prior \in PriorLists : InitCall(prior)

InitNet == InitCall(<<(<<>>), (<<>>)>>)

\* one call of insert_infinite_line (trial or not) or of insert_frank_read_src
NextLine ==
    \/ /\ Len(calls) < 1
       /\ \E cell \in LineCells, dir \in Dirs, maxseg \in MaxSegs, trial \in BOOLEAN :
            \E origin \in Origins(cell) :
                LineCall(cell, <<1, 0, 0>>, <<0, 0, 1>>, origin, dir, maxseg, trial)
    \/ LineStep
    \/ LineReturn
    \/ /\ Len(calls) < 1
       /\ \E numnodes \in 0..MaxFRNodes, raised \in BOOLEAN :
            insert_frank_read_src(<<1, 0, 0>>, <<0, 0, 1>>, 4, <<10, 10, 10>>, <<1, 0, 0>>,
                                  numnodes, raised)

SpecLine == InitLine /\ [][NextLine]_vars

\* sequences of non-trial insert_infinite_line and insert_frank_read_src calls
NextNet ==
    \/ /\ Len(calls) < MaxCalls
       /\ \E cell \in NetCells, dir \in NetDirs, slip \in Slips :
            LineCall(cell, slip[1], slip[2], Center(cell), dir, -1, FALSE)
    \/ LineStep
    \/ LineReturn
    \/ /\ Len(calls) < MaxCalls
       /\ \E numnodes \in 0..MaxFRNodes, raised \in BOOLEAN, slip \in Slips :
            insert_frank_read_src(slip[1], slip[2], 4, <<10, 10, 10>>, <<3, 4, 0>>,
                                  numnodes, raised)

SpecNet == InitNet /\ [][NextNet]_vars

---------------------------------------------------------------------------
(* generate_line_config.                                                   *)
(* The trial lengths of the calibration (lines 206-215) and the random     *)
(* draws (lines 234-236) are inputs of the call.  Each non-trial           *)
(* insert_infinite_line call of the loop is recorded with its arguments in *)
(* gen.lines; what such a call does to nodes and segs is SpecNet's matter. *)
(* A line direction cos(theta)*burg + sin(theta)*edir is kept as the       *)
(* triple (lsign, isys, theta) that determines it.                         *)

\* lines 162-171: the 12 <111>{110} slip systems, before normalisation
BccB ==
    << <<-1, 1, 1>>, <<1, 1, 1>>, <<-1, -1, 1>>, <<1, -1, 1>>,
       <<-1, 1, 1>>, <<1, 1, 1>>, <<-1, -1, 1>>, <<1, -1, 1>>,
       <<-1, 1, 1>>, <<1, 1, 1>>, <<-1, -1, 1>>, <<1, -1, 1>> >>

BccN ==
    << <<0, -1, 1>>, <<0, -1, 1>>, <<0, 1, 1>>, <<0, 1, 1>>,
       <<1, 0, 1>>, <<-1, 0, 1>>, <<1, 0, 1>>, <<-1, 0, 1>>,
       <<1, 1, 0>>, <<-1, 1, 0>>, <<-1, 1, 0>>, <<1, 1, 0>> >>

\* lines 175-186: the 12 <110>{111} slip systems, before normalisation
FccB ==
    << <<0, 1, -1>>, <<1, 0, -1>>, <<1, -1, 0>>,
       <<0, 1, -1>>, <<1, 0, 1>>, <<1, 1, 0>>,
       <<0, 1, 1>>, <<1, 0, -1>>, <<1, 1, 0>>,
       <<0, 1, 1>>, <<1, 0, 1>>, <<1, -1, 0>> >>

FccN ==
    << <<1, 1, 1>>, <<1, 1, 1>>, <<1, 1, 1>>,
       <<-1, 1, 1>>, <<-1, 1, 1>>, <<-1, 1, 1>>,
       <<1, -1, 1>>, <<1, -1, 1>>, <<1, -1, 1>>,
       <<1, 1, -1>>, <<1, 1, -1>>, <<1, 1, -1>> >>

KnownCrystal(crystal) == crystal \in {"BCC", "bcc", "FCC", "fcc"}

SlipB(crystal) == IF crystal \in {"BCC", "bcc"} THEN BccB ELSE FccB

SlipN(crystal) == IF crystal \in {"BCC", "bcc"} THEN BccN ELSE FccN

\* line 191: nsys = b.shape[0]
nsys(crystal) == Len(SlipB(crystal))

\* line 203
ntheta == 19

\* line 204: theta[t] = 90.0/(ntheta-1) * t, in degrees
ThetaGrid(t) == (90 * t) \div (ntheta - 1)

\* line 218: the angles np.ma.masked_less(theta_minlength, 0.0) leaves unmasked
Unmasked(row) == {t \in DOMAIN row : ~(row[t] < 0)}

\* line 219: masked min over the angles of one system, filled with -1.0
RowMin(row) ==
    IF Unmasked(row) = {} THEN -1 ELSE MinOf({row[t] : t \in Unmasked(row)})

MinLength(table) == [isys \in DOMAIN table |-> RowMin(table[isys])]

\* line 220
MaxLength(table) == MaxOf({MinLength(table)[isys] : isys \in DOMAIN table})

\* line 221
CalibrationFails(table, Lbox) ==
    \/ MaxLength(table) > 10 * Lbox
    \/ MinOf({MinLength(table)[isys] : isys \in DOMAIN table}) < 0

ArgMinNoAbs(row, maxlength) ==
    IF Unmasked(row) = {} THEN 0
    ELSE MinOf({t \in Unmasked(row) :
                  \A u \in Unmasked(row) : row[t] - maxlength <= row[u] - maxlength})

\* line 227: np.argmin of the masked |row - maxlength|: the first unmasked
\* index of smallest value (masked entries count as +inf; index 0 if all are)
ArgMinMasked(row, maxlength) ==
    IF Unmasked(row) = {} THEN 0
    ELSE MinOf({t \in Unmasked(row) :
                  \A u \in Unmasked(row) :
                      Abs(row[t] - maxlength) <= Abs(row[u] - maxlength)})

\* lines 227-228: theta_sys, one column
CalibratedThetaSys(table) ==
    [isys \in DOMAIN table |->
        [c \in 0..0 |-> ThetaGrid(ArgMinMasked(table[isys], MaxLength(table)))]]

\* line 230: np.tile(theta, (nsys, 1))
TiledThetaSys(theta, n) == [isys \in 0..(n - 1) |-> [c \in 0..(Len(theta) - 1) |-> theta[c + 1]]]

NoTable == [isys \in 0..0 |-> [t \in 0..0 |-> 0]]

GenIdle == [pc |-> "idle", crystal |-> "", Lbox |-> 0, num_lines |-> 0, auto |-> FALSE,
            table |-> NoTable, theta_sys |-> NoTable, ithe |-> <<>>, i |-> 0,
            lines |-> <<>>, err |-> ""]

\* lines 158-237: crystal tables, calibration or tiling, random draws.
\* theta = <<>> stands for theta=None; table holds the trial lengths
\* theta_minlength[isys, t] (-1 for -1.0); ithe is np.random.randint's draw.
GenCall(crystal, Lbox, num_lines, theta, table, ithe) ==
    /\ gen.pc = "idle"
    /\ gen' =
        IF ~KnownCrystal(crystal)
        THEN [GenIdle EXCEPT !.pc = "error", !.crystal = crystal,
                             !.err = "unknown crystal type"]
        ELSE IF theta = <<>> /\ CalibrationFails(table, Lbox)
        THEN [GenIdle EXCEPT !.pc = "error", !.crystal = crystal, !.Lbox = Lbox,
                             !.num_lines = num_lines, !.auto = TRUE, !.table = table,
                             !.err = "cannot find appropriate line to insert"]
        ELSE [pc |-> "lines", crystal |-> crystal, Lbox |-> Lbox, num_lines |-> num_lines,
              auto |-> theta = <<>>,
              table |-> IF theta = <<>> THEN table ELSE NoTable,
              theta_sys |-> IF theta = <<>> THEN CalibratedThetaSys(table)
                            ELSE TiledThetaSys(theta, nsys(crystal)),
              ithe |-> ithe, i |-> 0, lines |-> <<>>, err |-> ""]
    /\ UNCHANGED <<nodes, segs, arg, loc, pc, ret, calls, vtk>>

AngleIndexOwn(i, idip, n) == i

\* line 248: the index into ithe that line i reads
AngleIndex(i, idip, n) == i - idip * n

\* lines 240-252: the arguments of the insert_infinite_line call of line i
LineArgs(g, i) ==
    LET n    == nsys(g.crystal)
        isys == i % n
        idip == (i \div n) % 2
    IN  [isys |-> isys, burg |-> SlipB(g.crystal)[isys + 1],
         plane |-> SlipN(g.crystal)[isys + 1],
         theta |-> g.theta_sys[isys][g.ithe[AngleIndex(i, idip, n) + 1]],
         lsign |-> 1 - 2 * idip, origin |-> i]

\* lines 239-253: one iteration of the insertion loop
GenLine ==
    /\ gen.pc = "lines"
    /\ gen.i < gen.num_lines
    /\ gen' = [gen EXCEPT !.lines = Append(@, LineArgs(gen, gen.i)), !.i = @ + 1]
    /\ UNCHANGED <<nodes, segs, arg, loc, pc, ret, calls, vtk>>

\* lines 255-256
GenReturn ==
    /\ gen.pc = "lines"
    /\ gen.i = gen.num_lines
    /\ gen' = [gen EXCEPT !.pc = "done"]
    /\ UNCHANGED <<nodes, segs, arg, loc, pc, ret, calls, vtk>>

(* Inputs of generate_line_config *)
MaxLines == 25

RandPeriod == 5

TablePeriod == 2

GenLbox == 20

Crystals == {"BCC", "fcc", "hcp"}

NumLines == {0, 13, 24, MaxLines}

ThetaLists == { <<0, 90>>, <<0, 45, 90>> }

\* np.random.randint(0, ncols, n): arrays repeating a draw of RandPeriod values
RandInts(ncols, n) ==
    { [j \in 1..n |-> base[(j - 1) % RandPeriod]] :
        base \in [0..(RandPeriod - 1) -> 0..(ncols - 1)] }

\* one system's trial lengths: the closure length at a few angles, -1.0 elsewhere
TrialRow(closing) ==
    [t \in 0..(ntheta - 1) |-> IF t \in DOMAIN closing THEN closing[t] ELSE -1]

TrialRows ==
    << TrialRow(0 :> 20 @@ 9 :> 28),
       TrialRow(3 :> 30 @@ 7 :> 50 @@ 18 :> 40),
       TrialRow(2 :> 60 @@ 5 :> 35 @@ 11 :> 45),
       TrialRow(4 :> 250),
       TrialRow(<<>>),
       TrialRow(6 :> 10 @@ 12 :> 70 @@ 15 :> 50) >>

\* tables of trial lengths: the rows repeat an assignment of TablePeriod rows
TrialTables ==
    { [isys \in 0..11 |-> TrialRows[assign[isys % TablePeriod]]] :
        assign \in [0..(TablePeriod - 1) -> 1..Len(TrialRows)] }

InitGen ==
    /\ nodes = <<>>
    /\ segs = <<>>
    /\ arg = [cell |-> Cell(<<1, 1, 1>>, AllPeriodic), burg |-> <<1, 0, 0>>,
              plane |-> <<0, 0, 1>>, scale |-> 1, ldir |-> <<1, 0, 0>>,
              origin |-> <<0, 0, 0>>, seglength |-> 3, trial |-> FALSE]
    /\ loc = [p |-> <<0, 0, 0>>, originpbc |-> <<0, 0, 0>>, meet |-> 0, numnodes |-> 0]
    /\ pc = "off"
    /\ ret = [kind |-> "none", val |-> 0, warned |-> FALSE]
    /\ calls = <<>>
    /\ gen = GenIdle
    /\ vtk = NoVtk

NextGen ==
    \/ \E crystal \in Crystals, num_lines \in NumLines, table \in TrialTables :
          GenCall(crystal, GenLbox, num_lines, <<>>, table, [j \in 1..num_lines |-> 0])
    \/ \E crystal \in Crystals, num_lines \in NumLines, theta \in ThetaLists :
          \E ithe \in RandInts(Len(theta), num_lines) :
              GenCall(crystal, GenLbox, num_lines, theta, NoTable, ithe)
    \/ GenLine
    \/ GenReturn

SpecGen == InitGen /\ [][NextGen]_vars

---------------------------------------------------------------------------
(* write_vtk, pbc_wrap branch (lines 343-385).                             *)
(* The cell is the unit cube h = I at cell_origin with per-axis            *)
(* periodicity flags.  Coordinates are fixed-point numbers, FracOne units  *)
(* to 1.0, and eps (1e-10 in the code) is the small fixed-point number     *)
(* below; the facet parameters t0, t1 are exact fractions n/d compared as  *)
(* IEEE numbers (d = 0 gives an infinity or a NaN), and the intersection   *)
(* point is rounded to the nearest fixed-point number.                     *)

FracOne == 10000

\* line 345
eps == 10

\* lines 347-349
outside_box(p, cell_origin) ==
    LET s == VSub(p, cell_origin)
    IN  (\E i \in Axes : s[i] < -eps) \/ (\E i \in Axes : s[i] > FracOne + eps)

\* minimum image in the unit cube
closest_image_vtk(per, Rref, R) ==
    [i \in Axes |-> Rref[i] + WrapAxis(R[i] - Rref[i], FracOne, per[i])]

\* the quotient n / d of two floats
Rat(n, d) == IF d < 0 THEN [n |-> -n, d |-> -d] ELSE [n |-> n, d |-> d]

IsNaN(q) == q.d = 0 /\ q.n = 0

\* a < b on IEEE numbers: false with a NaN
RatLess(a, b) ==
    IF IsNaN(a) \/ IsNaN(b) THEN FALSE
    ELSE IF a.d = 0 THEN a.n < 0 /\ ~(b.d = 0 /\ b.n < 0)
    ELSE IF b.d = 0 THEN b.n > 0
    ELSE a.n * b.d < b.n * a.d

\* round(a / d) for d > 0
RoundDiv(a, d) == (2 * a + d) \div (2 * d)

\* lines 352-357: t0 (facets s = 0) then t1 (facets s = 1), indices 0..5
FacetParams(s1, s2) ==
    [k \in 0..5 |->
        IF k < 3 THEN Rat(-(s1[k + 1] - 0), (s2[k + 1] - s1[k + 1]) + eps)
        ELSE Rat(-(s1[k - 2] - FracOne), (s2[k - 2] - s1[k - 2]) + eps)]

\* line 358: s[s < eps] = 1.0
BackwardFilter(q) == IF RatLess(q, [n |-> eps, d |-> FracOne]) THEN [n |-> 1, d |-> 1] ELSE q

\* line 359: np.argmin, the first NaN if there is one, else the first minimum
ArgMin(s) ==
    IF \E k \in DOMAIN s : IsNaN(s[k])
    THEN MinOf({k \in DOMAIN s : IsNaN(s[k])})
    ELSE MinOf({k \in DOMAIN s : \A j \in DOMAIN s : ~RatLess(s[j], s[k])})

\* lines 351-367
facet_intersection_position(r1, r2, cell_origin) ==
    LET s1    == VSub(r1, cell_origin)
        s2    == VSub(r2, cell_origin)
        t     == VSub(s2, s1)
        s     == [k \in 0..5 |-> BackwardFilter(FacetParams(s1, s2)[k])]
        facet == ArgMin(s)
    IN  IF RatLess(s[facet], [n |-> 1, d |-> 1])
        THEN [pos |-> [i \in Axes |-> s1[i] + RoundDiv(s[facet].n * t[i], s[facet].d)
                                      + cell_origin[i]],
              facet |-> facet, sfacet |-> s[facet]]
        ELSE [pos |-> r2, facet |-> -1, sfacet |-> [n |-> 1, d |-> 1]]

\* line 381: the start of the next piece, across the facet
Reanchor(pos, facet) ==
    [i \in Axes |->
        IF i = (facet % 3) + 1
        THEN pos[i] + (1 - 2 * (facet \div 3)) * (FracOne - 2 * eps)
        ELSE pos[i]]

CellCenter(cell_origin) == [i \in Axes |-> cell_origin[i] + FracOne \div 2]

\* lines 324-370: the exported network and the empty output lists
VtkCall(cell_origin, per, rn, segsnid) ==
    /\ vtk.pc = "idle"
    /\ vtk' = [pc |-> "for", cell_origin |-> cell_origin, per |-> per, rn |-> rn,
               segsnid |-> segsnid, i |-> 0,
               r1 |-> <<0, 0, 0>>, r2 |-> <<0, 0, 0>>, out |-> FALSE, iter |-> 0,
               segsid |-> <<>>, rsegs |-> <<>>]
    /\ UNCHANGED <<nodes, segs, arg, loc, pc, ret, calls, gen>>

\* lines 371-375: the minimum image of segment i
VtkSegBegin ==
    /\ vtk.pc = "for"
    /\ vtk.i < Len(vtk.segsnid)
    /\ LET n1 == vtk.segsnid[vtk.i + 1][1]
           n2 == vtk.segsnid[vtk.i + 1][2]
           r1 == closest_image_vtk(vtk.per, CellCenter(vtk.cell_origin), vtk.rn[n1 + 1])
           r2 == closest_image_vtk(vtk.per, r1, vtk.rn[n2 + 1])
       IN  vtk' = [vtk EXCEPT !.pc = "while", !.r1 = r1, !.r2 = r2,
                              !.out = outside_box(r2, vtk.cell_origin), !.iter = 0]
    /\ UNCHANGED <<nodes, segs, arg, loc, pc, ret, calls, gen>>

\* lines 376-383: one iteration of the clipping loop that does not break
VtkClip ==
    /\ vtk.pc = "while"
    /\ vtk.out
    /\ LET f == facet_intersection_position(vtk.r1, vtk.r2, vtk.cell_origin)
           n2 == vtk.segsnid[vtk.i + 1][2]
           r1 == Reanchor(f.pos, f.facet)
           r2 == closest_image_vtk(vtk.per, r1, vtk.rn[n2 + 1])
       IN  /\ ~(f.facet < 0)
           /\ vtk' = [vtk EXCEPT !.segsid = Append(@, vtk.i),
                                  !.rsegs = Append(@, <<vtk.r1, f.pos>>),
                                  !.r1 = r1, !.r2 = r2,
                                  !.out = outside_box(r2, vtk.cell_origin),
                                  !.iter = @ + 1]
    /\ UNCHANGED <<nodes, segs, arg, loc, pc, ret, calls, gen>>

\* lines 376, 378, 384-385: the loop ends (or breaks) and the last piece is emitted
VtkSegEnd ==
    /\ vtk.pc = "while"
    /\ \/ ~vtk.out
       \/ facet_intersection_position(vtk.r1, vtk.r2, vtk.cell_origin).facet < 0
    /\ vtk' = [vtk EXCEPT !.segsid = Append(@, vtk.i),
                           !.rsegs = Append(@, <<vtk.r1, vtk.r2>>),
                           !.i = @ + 1, !.pc = "for"]
    /\ UNCHANGED <<nodes, segs, arg, loc, pc, ret, calls, gen>>

\* lines 387-435: all segments clipped, the file is written
VtkReturn ==
    /\ vtk.pc = "for"
    /\ vtk.i = Len(vtk.segsnid)
    /\ vtk' = [vtk EXCEPT !.pc = "done"]
    /\ UNCHANGED <<nodes, segs, arg, loc, pc, ret, calls, gen>>

(* Inputs of write_vtk *)
MaxVtkNodes == 3

MaxClip == 5

\* node positions, in tenths of the cell side
Tenths(x, y, z) == <<x * (FracOne \div 10), y * (FracOne \div 10), z * (FracOne \div 10)>>

\* (no two of them are half a cell apart on an axis: the minimum image of
\* every pair is the same under either rounding of a tie)
VtkPoints ==
    { Tenths(4, 5, 5), Tenths(1, 1, 5), Tenths(8, 8, 5), Tenths(0, 5, 5),
      Tenths(7, 5, 5), Tenths(14, 5, 5), Tenths(1, 2, 3), Tenths(8, 9, 9) }

\* networks: chains of 2..MaxVtkNodes nodes, segment k joining node k to node k+1
VtkChains ==
    UNION { [1..n -> VtkPoints] : n \in 2..MaxVtkNodes }

ChainSegs(rn) == [k \in 1..(Len(rn) - 1) |-> <<k - 1, k>>]

VtkPeriodicities == { AllPeriodic, <<FALSE, TRUE, TRUE>> }

InitVtk ==
    /\ nodes = <<>>
    /\ segs = <<>>
    /\ arg = [cell |-> Cell(<<1, 1, 1>>, AllPeriodic), burg |-> <<1, 0, 0>>,
              plane |-> <<0, 0, 1>>, scale |-> 1, ldir |-> <<1, 0, 0>>,
              origin |-> <<0, 0, 0>>, seglength |-> 3, trial |-> FALSE]
    /\ loc = [p |-> <<0, 0, 0>>, originpbc |-> <<0, 0, 0>>, meet |-> 0, numnodes |-> 0]
    /\ pc = "off"
    /\ ret = [kind |-> "none", val |-> 0, warned |-> FALSE]
    /\ calls = <<>>
    /\ gen = NoGen
    /\ vtk = [pc |-> "idle"]

\* the clipping loop is followed for at most MaxClip iterations per segment
NextVtk ==
    \/ \E per \in VtkPeriodicities, rn \in VtkChains :
          VtkCall(<<0, 0, 0>>, per, rn, ChainSegs(rn))
    \/ VtkSegBegin
    \/ vtk.pc = "while" /\ vtk.iter < MaxClip /\ VtkClip
    \/ VtkSegEnd
    \/ VtkReturn

SpecVtk == InitVtk /\ [][NextVtk]_vars

---------------------------------------------------------------------------
(* Claims about insert_infinite_line and insert_frank_read_src *)

\* the call that has just returned is an insert_infinite_line call
LineDone == pc = "idle" /\ Len(calls) > 0 /\ calls[Len(calls)].op = "line"

LastCall == calls[Len(calls)]

\* the lattice row (axis) a direction is aligned with, 0 if none
RowOf(dir) ==
    IF dir[2] = 0 /\ dir[3] = 0 THEN 1
    ELSE IF dir[1] = 0 /\ dir[3] = 0 THEN 2
    ELSE IF dir[1] = 0 /\ dir[2] = 0 THEN 3
    ELSE 0

Periodic(cell) == \A i \in Axes : cell.per[i]

Cubic(cell) == cell.m[1] = cell.m[2] /\ cell.m[2] = cell.m[3]

\* C1: the marching loop never takes more than 1000 steps, and a call whose
\* steps detected no closure ends with the documented outcome: -1.0 in trial
\* mode, the unchanged lists (with the warning) otherwise.
C1_BoundedMarch ==
    /\ loc.numnodes <= maxnodes
    /\ (pc = "while" /\ ~LoopCond(loc) /\ loc.meet = 0) => loc.numnodes = maxnodes
    /\ (LineDone /\ loc.meet = 0) =>
          IF arg.trial
          THEN ret.kind = "scalar" /\ ret.val = -1
          ELSE /\ ret.kind = "lists" /\ ret.warned
               /\ nodes = LastCall.nodes0 /\ segs = LastCall.segs0

\* C1 witness: a non-trial call has marched 1000 steps without closure and returned
C1_Witness == LineDone /\ loc.meet = 0 /\ loc.numnodes = maxnodes /\ ~arg.trial

\* C3 as stated: in trial mode, in an orthogonal periodic cell, a direction
\* aligned with a lattice row returns that row's norm, for every side length
\* and every step length.
C3_Original ==
    (LineDone /\ arg.trial /\ Periodic(arg.cell) /\ RowOf(arg.ldir) # 0) =>
        ret.val = (arg.scale * Side(arg.cell, RowOf(arg.ldir)))
                  * (arg.scale * Side(arg.cell, RowOf(arg.ldir)))

\* C3 amended: the row's norm is returned whenever the row is shorter than
\* 1000 step lengths; a cubic cell with the default step returns its side and
\* the non-trial call adds 6 nodes.
C3_RowClosure ==
    (LineDone /\ Periodic(arg.cell) /\ RowOf(arg.ldir) # 0) =>
        LET L == Side(arg.cell, RowOf(arg.ldir))
        IN  /\ (arg.trial /\ L < maxnodes * arg.seglength) =>
                    ret.val = (arg.scale * L) * (arg.scale * L)
            /\ (Cubic(arg.cell) /\ 20 * arg.seglength = 3 * L) =>
                    /\ loc.numnodes = 6
                    /\ arg.trial => ret.val = (arg.scale * L) * (arg.scale * L)
                    /\ ~arg.trial => LastCall.ok /\ Len(nodes) = Len(LastCall.nodes0) + 6

\* C3 witness: a trial call along the long row of a non-cubic cell returned it
C3_Witness ==
    /\ LineDone /\ arg.trial /\ ~Cubic(arg.cell) /\ RowOf(arg.ldir) = 2
    /\ ret.val = Side(arg.cell, 2) * Side(arg.cell, 2)
    /\ Side(arg.cell, 2) > Lmin(arg.cell)

\* the segments a successful insert_infinite_line call (log entry e) added form
\* one closed cycle over the k nodes it added
ClosedCycle(e) ==
    /\ e.k >= 1
    /\ Len(nodes) >= e.istart + e.k
    /\ Len(segs) >= e.sstart + e.k
    /\ \A i \in 0..(e.k - 1) :
          /\ nodes[e.istart + i + 1].constraint = UNCONSTRAINED
          /\ segs[e.sstart + i + 1] =
                [n1 |-> e.istart + i, n2 |-> e.istart + ((i + 1) % e.k),
                 burg |-> e.burg, plane |-> e.plane]

\* every log entry accounts for exactly the elements its call appended
Appended(j) ==
    LET e == calls[j]
        n1 == IF j < Len(calls) THEN Len(calls[j + 1].nodes0) ELSE Len(nodes)
        s1 == IF j < Len(calls) THEN Len(calls[j + 1].segs0) ELSE Len(segs)
    IN  n1 = e.istart + e.k /\ (e.op = "line" => s1 = e.sstart + e.k)

\* C4: from empty lists, after any sequence of insert_frank_read_src and
\* non-trial insert_infinite_line calls, every segment endpoint is a valid node
\* index, and each successful insert_infinite_line call added k nodes and k
\* segments forming one closed cycle, nodes UNCONSTRAINED, segments carrying
\* the call's Burgers vector and (unit) plane normal.
C4_ValidCycle ==
    /\ \A s \in 1..Len(segs) :
          /\ segs[s].n1 \in 0..(Len(nodes) - 1)
          /\ segs[s].n2 \in 0..(Len(nodes) - 1)
    /\ pc = "idle" =>
          \A j \in 1..Len(calls) :
              /\ Appended(j)
              /\ (calls[j].op = "line" /\ calls[j].ok) =>
                    calls[j].k >= 2 /\ ClosedCycle(calls[j])

\* C4 witness: a closed line was added after a Frank-Read source
C4_Witness ==
    /\ pc = "idle" /\ Len(calls) = 2
    /\ calls[1].op = "frs" /\ calls[1].k = 3
    /\ calls[2].op = "line" /\ calls[2].ok /\ calls[2].k = 6
    /\ segs[Len(segs)].n2 = calls[2].istart

\* C9: a trial call, whatever it returns, and a non-trial call that ends with
\* the too-long warning leave both lists exactly as they were.
C9_Frame ==
    (LineDone /\ (arg.trial \/ ret.warned)) =>
        nodes = LastCall.nodes0 /\ segs = LastCall.segs0

\* C9 witness: a trial call returned a length on non-empty lists
C9_Witness ==
    /\ LineDone /\ arg.trial /\ ret.val > 0
    /\ Len(nodes) = 2 /\ nodes = LastCall.nodes0 /\ Len(segs) = 1

\* C10 as stated: a closure detected on any step up to the 1000th is reported
\* (a non-negative length in trial mode, the line inserted otherwise), and the
\* too-long outcome occurs only when no step detected closure.
C10_ClosureReported ==
    (LineDone /\ loc.meet = 1) =>
        IF arg.trial THEN ret.val >= 0
        ELSE ~ret.warned /\ Len(nodes) = Len(LastCall.nodes0) + loc.numnodes

---------------------------------------------------------------------------
(* Claims about generate_line_config *)

\* the lines (0-based) of the same slip system and angle with a given sign
SignedLines(isys, theta, sign) ==
    {i \in 0..(Len(gen.lines) - 1) :
        /\ gen.lines[i + 1].isys = isys
        /\ gen.lines[i + 1].theta = theta
        /\ gen.lines[i + 1].lsign = sign}

\* line j has the slip system and angle of line i and the opposite direction
Opposite(i, j) ==
    /\ gen.lines[j + 1].isys = gen.lines[i + 1].isys
    /\ gen.lines[j + 1].burg = gen.lines[i + 1].burg
    /\ gen.lines[j + 1].plane = gen.lines[i + 1].plane
    /\ gen.lines[j + 1].theta = gen.lines[i + 1].theta
    /\ gen.lines[j + 1].lsign = -gen.lines[i + 1].lsign

\* C7: line i uses slip system i mod nsys; a line of an odd block has the slip
\* system and character angle of line i-nsys and the opposite direction; when
\* num_lines is a multiple of 2*nsys every line has exactly one such partner
\* and the signed directions of each slip system cancel.
C7_Dipoles ==
    gen.pc \in {"lines", "done"} =>
        LET n == nsys(gen.crystal)
        IN  /\ \A i \in 0..(Len(gen.lines) - 1) :
                  /\ gen.lines[i + 1].isys = i % n
                  /\ gen.lines[i + 1].burg = SlipB(gen.crystal)[(i % n) + 1]
                  /\ (i \div n) % 2 = 1 => Opposite(i - n, i)
            /\ (gen.pc = "done" /\ gen.num_lines % (2 * n) = 0) =>
                  /\ Len(gen.lines) = gen.num_lines
                  /\ \A i \in 0..(gen.num_lines - 1) :
                        Cardinality({j \in 0..(gen.num_lines - 1) :
                                        /\ j \in {i - n, i + n}
                                        /\ (i \div (2 * n)) = (j \div (2 * n))
                                        /\ Opposite(i, j)}) = 1
                  /\ \A i \in 0..(gen.num_lines - 1) :
                        Cardinality(SignedLines(gen.lines[i + 1].isys,
                                                gen.lines[i + 1].theta, 1))
                        = Cardinality(SignedLines(gen.lines[i + 1].isys,
                                                  gen.lines[i + 1].theta, -1))

\* C7 witness: 24 lines placed with angles drawn from a list, two of them differing
C7_Witness ==
    /\ gen.pc = "done" /\ ~gen.auto /\ gen.num_lines = 24
    /\ gen.lines[1].theta # gen.lines[3].theta
    /\ gen.lines[15].lsign = -1 /\ gen.lines[15].theta = gen.lines[3].theta

\* the angles of system isys with a non-negative trial length
ValidAngles(isys) == {t \in 0..(ntheta - 1) : gen.table[isys][t] >= 0}

\* the largest, over the slip systems, of the smallest non-negative trial length
RefMax ==
    MaxOf({MinOf({gen.table[isys][t] : t \in ValidAngles(isys)}) :
              isys \in DOMAIN gen.table})

\* C8: with theta not supplied, if a slip system has no non-negative trial
\* length or the reference maximum exceeds 10*Lbox the call raises before any
\* line is inserted; otherwise every system gets a valid angle whose trial
\* length is nearest to the reference maximum.
C8_Calibration ==
    gen.auto =>
        IF (\E isys \in DOMAIN gen.table : ValidAngles(isys) = {}) \/ RefMax > 10 * gen.Lbox
        THEN gen.pc = "error" /\ gen.lines = <<>>
        ELSE /\ gen.pc \in {"lines", "done"}
             /\ \A isys \in DOMAIN gen.table :
                   \E t \in ValidAngles(isys) :
                       /\ gen.theta_sys[isys] = [c \in 0..0 |-> 5 * t]
                       /\ \A u \in ValidAngles(isys) :
                             Abs(gen.table[isys][t] - RefMax) <= Abs(gen.table[isys][u] - RefMax)

\* C8 witness: a calibrated call inserted lines with an angle that is not the
\* system's shortest one
C8_Witness ==
    /\ gen.auto /\ gen.pc = "done" /\ gen.num_lines = 24
    /\ gen.table[0][0] = 20 /\ gen.theta_sys[0][0] = 45
    /\ gen.lines[1].theta = 45

---------------------------------------------------------------------------
(* Claims about write_vtk *)

\* C2 as stated: both endpoints of every emitted sub-segment are inside the
\* box within eps (outside_box is false for them).
C2_PiecesInBox ==
    vtk.pc \in {"for", "while", "done"} =>
        \A k \in 1..Len(vtk.rsegs) :
            /\ ~outside_box(vtk.rsegs[k][1], vtk.cell_origin)
            /\ ~outside_box(vtk.rsegs[k][2], vtk.cell_origin)

\* the minimum-image segment r1 -> r2 of segment j (0-based), as lines 373-374
MinImage(j) ==
    LET r1 == closest_image_vtk(vtk.per, CellCenter(vtk.cell_origin),
                                vtk.rn[vtk.segsnid[j + 1][1] + 1])
    IN  <<r1, closest_image_vtk(vtk.per, r1, vtk.rn[vtk.segsnid[j + 1][2] + 1])>>

\* the axes on which the minimum-image segment of segment j leaves the box
\* (by more than eps); it then crosses one facet of that axis
CrossedAxes(j) ==
    {a \in Axes :
        LET s1 == MinImage(j)[1][a] - vtk.cell_origin[a]
            s2 == MinImage(j)[2][a] - vtk.cell_origin[a]
        IN  /\ s1 >= 0 /\ s1 <= FracOne
            /\ (s2 < -eps \/ s2 > FracOne + eps)}

\* the pieces (indices into rsegs) emitted for segment j
Pieces(j) == {k \in 1..Len(vtk.segsid) : vtk.segsid[k] = j}

\* C5 as stated: a finished segment has one piece more than the facets its
\* minimum-image segment crosses; with one facet crossed there are two pieces
\* and the cut point is on that facet (here: within eps of it).
C5_PieceCount ==
    vtk.pc \in {"for", "done"} =>
        \A j \in 0..(vtk.i - 1) :
            /\ Cardinality(Pieces(j)) = Cardinality(CrossedAxes(j)) + 1
            /\ Cardinality(CrossedAxes(j)) = 1 =>
                  \A a \in CrossedAxes(j) :
                      LET cut == vtk.rsegs[MinOf(Pieces(j))][2][a] - vtk.cell_origin[a]
                      IN  Abs(cut) <= eps \/ Abs(cut - FracOne) <= eps

\* C6 as stated: the clipping loop of a segment runs at most three times, so a
\* segment never has more than four pieces.
C6_ClipBound ==
    vtk.pc \in {"for", "while", "done"} =>
        /\ vtk.iter <= 3
        /\ \A j \in 0..vtk.i : Cardinality(Pieces(j)) <= 4

=============================================================================
